---- MODULE Spec2Model ----
(***************************************************************************)
(* A model of ocr_system/main.py: TextExtractor.extract with the archive   *)
(* scan get_zip_members and cleanup_zip_members, and the page layout       *)
(* profiler _profile_pdf_layout.                                           *)
(*                                                                         *)
(* Python strings are sequences of one-character strings, so that lower(), *)
(* splitext(), substring tests and f-string concatenation are computed.    *)
(* An Optional value is a sequence of length 0 (None) or 1.                *)
(* Ratios are kept as exact fractions [num, den]; the thresholds 0.75 and  *)
(* 0.02 are held in hundredths and compared by cross-multiplication.       *)
(***************************************************************************)
EXTENDS Integers, Sequences, FiniteSets, TLC

VARIABLES
    file_path,      \* extract's argument: [name, exists]
    infolist,       \* the archive's directory listing: a sequence of entry names
    pc,             \* position in extract / get_zip_members
    zf,             \* the ZipFile of get_zip_members: "unopened", "open", "closed" or "failed"
    zd,             \* get_zip_members' local ZipData
    zip_data,       \* extract's local zip_data (the finally block cleans this one)
    extract_data,   \* extract's ExtractData
    cand_i,         \* position of the `for info in candidates` loop
    ok_j,           \* position of the `for zip_member in zip_data.ok_members` loop
    fs,             \* the temp directory: path -> number of chunks in the file
    next_tmp,       \* how many temp names NamedTemporaryFile has handed out
    raised,         \* what open/copy did for each candidate the loop reached
    outcome,        \* how extract ended: <<>> while running, then <<"returned">> or <<"raised">>
    p_in,           \* arguments and environment of the last _profile_pdf_layout call
    p_out           \* Optional: the PdfLayoutProfile that call returned

vars == << file_path, infolist, pc, zf, zd, zip_data, extract_data, cand_i, ok_j,
           fs, next_tmp, raised, outcome, p_in, p_out >>

----------------------------------------------------------------------------
(* Bounds of the model *)

MaxEntries == 2         \* entries in an archive listing
MaxChunks == 1          \* chunks (of 1 MiB) an archive member decompresses to
MaxPages == 3           \* pages of a document drawn from PageKinds
MaxRoutePages == 10     \* pages of a document made of blocks of like pages

----------------------------------------------------------------------------
(* Python values *)

None == << >>
Some(x) == << x >>

\* Python truthiness of an Optional[str]: None and "" are falsy
Truthy(opt) == opt # None /\ opt[1] # << >>

UpperAlpha == <<"A", "B", "C", "D", "E", "F", "G", "H", "I", "J", "K", "L", "M",
                "N", "O", "P", "Q", "R", "S", "T", "U", "V", "W", "X", "Y", "Z">>
LowerAlpha == <<"a", "b", "c", "d", "e", "f", "g", "h", "i", "j", "k", "l", "m",
                "n", "o", "p", "q", "r", "s", "t", "u", "v", "w", "x", "y", "z">>

LowerChar(c) ==
    IF \E k \in 1..Len(UpperAlpha) : UpperAlpha[k] = c
    THEN LowerAlpha[CHOOSE k \in 1..Len(UpperAlpha) : UpperAlpha[k] = c]
    ELSE c

\* str.lower()
StrLower(s) == [k \in 1..Len(s) |-> LowerChar(s[k])]

\* `sub in s`
Contains(s, sub) ==
    \E k \in 1..(Len(s) - Len(sub) + 1) : SubSeq(s, k, k + Len(sub) - 1) = sub

\* str.rfind of one character, 0 when absent (Python's -1)
RFind(s, c) ==
    IF \E k \in 1..Len(s) : s[k] = c
    THEN CHOOSE k \in 1..Len(s) : s[k] = c /\ \A m \in (k+1)..Len(s) : s[m] # c
    ELSE 0

\* os.path.splitext(p)[1]: from the last dot of the last path component,
\* unless that component has only dots before it
SplitextExt(p) ==
    LET sepIndex == RFind(p, "/")
        dotIndex == RFind(p, ".")
    IN  IF dotIndex > sepIndex /\ \E k \in (sepIndex+1)..(dotIndex-1) : p[k] # "."
        THEN SubSeq(p, dotIndex, Len(p))
        ELSE << >>

\* os.path.basename(p)
Basename(p) == SubSeq(p, RFind(p, "/") + 1, Len(p))

\* ZipInfo.is_dir()
IsDir(name) == Len(name) > 0 /\ name[Len(name)] = "/"

----------------------------------------------------------------------------
(* String literals of the program and of its environment *)

ExtPdf == <<".", "p", "d", "f">>
ExtZip == <<".", "z", "i", "p">>
ExtBin == <<".", "b", "i", "n">>
StrPassword == <<"p", "a", "s", "s", "w", "o", "r", "d">>
StrDecrypt == <<"d", "e", "c", "r", "y", "p", "t">>
StrScan == <<"s", "c", "a", "n">>
ColonSpace == <<":", " ">>
TxtEncrypted == <<"E", "n", "c", "r", "y", "p", "t", "e", "d", " ", "e", "n", "t", "r", "y", " ", "(", "w", "r", "o", "n", "g", "/", "m", "i", "s", "s", "i", "n", "g", " ", "p", "a", "s", "s", "w", "o", "r", "d", ")", ".">>
TxtNotZip == <<"N", "o", "t", " ", "a", " ", "Z", "I", "P", " ", "f", "i", "l", "e", " ", "o", "r", " ", "f", "i", "l", "e", " ", "i", "s", " ", "s", "e", "v", "e", "r", "e", "l", "y", " ", "c", "o", "r", "r", "u", "p", "t", "e", "d", ".">>
TxtTooLarge == <<"Z", "I", "P", " ", "t", "o", "o", " ", "l", "a", "r", "g", "e", " ", "o", "r", " ", "Z", "I", "P", "6", "4", " ", "i", "s", "s", "u", "e", ":", " ">>
TxtUnexpected == <<"U", "n", "e", "x", "p", "e", "c", "t", "e", "d", " ", "e", "r", "r", "o", "r", ":", " ">>
TxtNotFound == <<"c", "o", "u", "l", "d", " ", "n", "o", "t", " ", "f", "i", "n", "d", " ", "f", "i", "l", "e", " ", "o", "n", " ", "p", "a", "t", "h", " ">>
TxtBadExt == <<"f", "i", "l", "e", " ", "d", "o", "e", "s", "n", "'", "t", " ", "h", "a", "v", "e", " ", "v", "a", "l", "i", "d", " ", "e", "x", "t", "e", "n", "s", "i", "o", "n", ".", " ", "G", "o", "t", " ">>
TxtExpected == <<" ", ">", " ", "e", "x", "p", "e", "c", "t", "e", "d", " ">>
TxtNoInput == <<"n", "o", " ", "i", "n", "p", "u", "t", " ", "p", "r", "o", "v", "i", "d", "e", "d">>

\* messages of the exceptions the libraries raise
MsgCrc == <<"B", "a", "d", " ", "C", "R", "C", "-", "3", "2">>
MsgPwd == <<"B", "a", "d", " ", "P", "a", "s", "s", "w", "o", "r", "d">>
MsgZlib == <<"E", "r", "r", "o", "r", " ", "-", "3">>
MsgDisk == <<"N", "o", " ", "s", "p", "a", "c", "e">>
MsgMonth == <<"m", "o", "n", "t", "h">>
MsgNoFile == <<"N", "o", " ", "s", "u", "c", "h", " ", "f", "i", "l", "e">>
MsgSyntax == <<"N", "o", " ", "/", "R", "o", "o", "t">>
MsgAttr == <<"n", "o", " ", "l", "o", "w", "e", "r">>

----------------------------------------------------------------------------
(* Types *)

\* ExtractData()
NewExtractData == [text_data |-> None, info |-> << >>, warning |-> << >>, error |-> << >>]

\* ZipData()
NewZipData ==
    [ok_files |-> << >>, bad_files |-> << >>, ok_files_count |-> 0, bad_files_count |-> 0,
     errors |-> << >>, ok_members |-> << >>, bad_members |-> << >>]

\* ZipMember(name=info.filename, size=info.file_size, ...) with the dataclass
\* defaults; info is the listing position of the ZipInfo it was built from.
\* compress_size, modified and crc are copied metadata that nothing reads.
NewZipMember(info, name, size) ==
    [info |-> info, name |-> name, size |-> size,
     crc_ok |-> FALSE, error |-> None, temp_path |-> None]

\* self.valid_extensions for the default TextExtractor()
valid_extensions == { StrLower(ExtPdf) }

----------------------------------------------------------------------------
(* Extractor thresholds, in hundredths *)

IMG_RATIO_SCANNED == 75
CHAR_MIN_FOR_TEXT == 50
TEXT_AREA_MIN_RATIO == 2

----------------------------------------------------------------------------
(* _profile_pdf_layout *)

Max(a, b) == IF a >= b THEN a ELSE b
Min(a, b) == IF a <= b THEN a ELSE b

\* dict.get(k, default)
Get(d, k, default) == IF k \in DOMAIN d THEN d[k] ELSE default

\* ratio >= hundredths / 100, exactly
AtLeast(ratio, hundredths) == ratio.num * 100 >= hundredths * ratio.den

\* min(area / page_area, 1.0)
ClampedRatio(area, page_area) == [num |-> Min(area, page_area), den |-> page_area]

RECURSIVE ImgArea(_)
\* the loop `for im in imgs: img_area += w * h`
ImgArea(imgs) ==
    IF imgs = << >> THEN 0
    ELSE LET im == imgs[Len(imgs)]
             w == Max(Get(im, "x1", 0) - Get(im, "x0", 0), 0)
             h == Max(Get(im, "y1", 0) - Get(im, "y0", 0), 0)
         IN  ImgArea(SubSeq(imgs, 1, Len(imgs) - 1)) + w * h

RECURSIVE WordArea(_)
\* the loop `for wdict in words: word_area += w * h`
WordArea(words) ==
    IF words = << >> THEN 0
    ELSE LET wdict == words[Len(words)]
             top == Get(wdict, "top", 0)
             w == Max(Get(wdict, "x1", 0) - Get(wdict, "x0", 0), 0)
             h == Max(Get(wdict, "bottom", top) - top, 0)
         IN  WordArea(SubSeq(words, 1, Len(words) - 1)) + w * h

\* a faulty HasText: the glyph-count criterion is left out
HasTextLoose(text_chars, text_area_ratio) == AtLeast(text_area_ratio, TEXT_AREA_MIN_RATIO)

\* has_text = (text_chars >= CHAR_MIN_FOR_TEXT) or (text_area_ratio >= TEXT_AREA_MIN_RATIO)
HasText(text_chars, text_area_ratio) ==
    text_chars >= CHAR_MIN_FOR_TEXT \/ AtLeast(text_area_ratio, TEXT_AREA_MIN_RATIO)

\* image_dominant = image_area_ratio >= IMG_RATIO_SCANNED
ImageDominant(image_area_ratio) == AtLeast(image_area_ratio, IMG_RATIO_SCANNED)

\* a faulty TextDominant: `and not image_dominant` is left out
TextDominantAlone(text_area_ratio, image_dominant) ==
    AtLeast(text_area_ratio, TEXT_AREA_MIN_RATIO)

\* text_dominant = (text_area_ratio >= TEXT_AREA_MIN_RATIO and not image_dominant)
TextDominant(text_area_ratio, image_dominant) ==
    AtLeast(text_area_ratio, TEXT_AREA_MIN_RATIO) /\ ~image_dominant

\* One pass of the page loop: the PdfPageStats appended for page pg at index idx.
\* pg.words = None stands for extract_words() raising.
PageStats(idx, pg) ==
    LET page_area == Max(pg.width * pg.height, 1)
        image_area_ratio == ClampedRatio(ImgArea(pg.images), page_area)
        words == IF pg.words = None THEN << >> ELSE pg.words[1]
        text_area_ratio == ClampedRatio(WordArea(words), page_area)
        image_dominant == ImageDominant(image_area_ratio)
    IN  [index |-> idx,
         width |-> pg.width,
         height |-> pg.height,
         image_area_ratio |-> image_area_ratio,
         text_chars |-> pg.chars,
         text_words |-> Len(words),
         text_area_ratio |-> text_area_ratio,
         has_text |-> HasText(pg.chars, text_area_ratio),
         has_images |-> image_area_ratio.num > 0,
         image_dominant |-> image_dominant,
         text_dominant |-> TextDominant(text_area_ratio, image_dominant)]

\* sum(1 for s in page_stats if s.<flag>)
CountStats(page_stats, flag) ==
    Cardinality({k \in 1..Len(page_stats) : page_stats[k][flag]})

\* PdfLayoutProfile(file_name=name, readable=False, pages=0, error=...)
Unreadable(name, msg) ==
    [file_name |-> name, readable |-> FALSE, pages |-> 0, error |-> Some(msg),
     metadata |-> [Producer |-> None],
     pages_image_dominant |-> 0, pages_text_dominant |-> 0, pages_mixed |-> 0,
     recommended |-> "hybrid", rationale |-> << >>, page_stats |-> << >>]

\* a faulty Recommend: the image threshold is 0.50 instead of 0.60
RecommendOcrAtHalf(n_pages, img_dom, txt_dom, mixed) ==
    IF n_pages > 0
    THEN IF img_dom * 100 >= 50 * n_pages
         THEN [recommended |-> "ocr", rationale |-> << >>]
         ELSE IF txt_dom * 100 >= 90 * n_pages
         THEN [recommended |-> "pdfplumber", rationale |-> << >>]
         ELSE [recommended |-> "hybrid", rationale |-> << >>]
    ELSE [recommended |-> "hybrid", rationale |-> << >>]

\* The recommendation block: (recommended, rationale) from the aggregates.
\* The rationale is the f-string's pieces; ">=" stands for its U+2265 sign.
Recommend(n_pages, img_dom, txt_dom, mixed) ==
    IF n_pages > 0
    THEN IF img_dom * 100 >= 60 * n_pages
         THEN [recommended |-> "ocr",
               rationale |-> << ToString(img_dom), "/", ToString(n_pages),
                                " pages are image-dominant (>=",
                                ToString(IMG_RATIO_SCANNED), "% image area)." >>]
         ELSE IF txt_dom * 100 >= 90 * n_pages
         THEN [recommended |-> "pdfplumber",
               rationale |-> << ToString(txt_dom), "/", ToString(n_pages),
                                " pages have sufficient text density." >>]
         ELSE [recommended |-> "hybrid",
               rationale |-> << "Mixed content: image-dominant=", ToString(img_dom),
                                ", text-dominant=", ToString(txt_dom),
                                ", mixed=", ToString(mixed), "." >>]
    ELSE [recommended |-> "hybrid", rationale |-> << >>]

\* The Producer hint applied to a recommendation r; producer is already lowered
ProducerHint(r, producer) ==
    IF Contains(producer, StrScan) /\ r.recommended = "pdfplumber"
    THEN [recommended |-> "hybrid",
          rationale |-> r.rationale \o << " Producer suggests a scanner; using hybrid for safety." >>]
    ELSE r

\* _profile_pdf_layout(path, original_name). exists: whether a file is at path;
\* doc: what pdfplumber finds there. A doc that does not open, a page whose
\* geometry cannot be read and a Producer that is no string make the body
\* raise, which the outer `except Exception` turns into an unreadable profile.
ProfilePdfLayout(path, original_name, exists, doc) ==
    LET name == IF Truthy(original_name) THEN original_name
                ELSE IF Truthy(path) THEN Some(Basename(path[1])) ELSE None
    IN
    IF ~Truthy(path) THEN Unreadable(name, TxtNoInput)
    ELSE IF ~exists THEN Unreadable(name, MsgNoFile)
    ELSE IF ~doc.opens THEN Unreadable(name, MsgSyntax)
    ELSE IF \E k \in 1..Len(doc.pages) : doc.pages[k].broken THEN Unreadable(name, MsgSyntax)
    ELSE
    LET n_pages == Len(doc.pages)
        page_stats == [k \in 1..n_pages |-> PageStats(k - 1, doc.pages[k])]
        img_dom == CountStats(page_stats, "image_dominant")
        txt_dom == CountStats(page_stats, "text_dominant")
        mixed == n_pages - (img_dom + txt_dom)
        r == Recommend(n_pages, img_dom, txt_dom, mixed)
        value == doc.metadata.Producer
        falsy == value = None \/ (value[1].is_str /\ value[1].chars = << >>)
    IN
    IF ~falsy /\ ~value[1].is_str THEN Unreadable(name, MsgAttr)
    ELSE
    LET producer == IF falsy THEN << >> ELSE StrLower(value[1].chars)
        final == ProducerHint(r, producer)
    IN  [file_name |-> name, readable |-> TRUE, pages |-> n_pages, error |-> None,
         metadata |-> doc.metadata,
         pages_image_dominant |-> img_dom, pages_text_dominant |-> txt_dom,
         pages_mixed |-> mixed,
         recommended |-> final.recommended, rationale |-> final.rationale,
         page_stats |-> page_stats]

----------------------------------------------------------------------------
(* _get_extension, _is_valid_member *)

\* os.path.splitext(file_path)[1].lower()
GetExtension(path) == StrLower(SplitextExt(path))

\* self._get_extension(name) in self.valid_extensions
IsValidMember(name) == GetExtension(name) \in valid_extensions

----------------------------------------------------------------------------
(* The temp directory *)

\* tempfile.NamedTemporaryFile(delete=False, dir=self.temp_dir, suffix=suffix).name:
\* a name no earlier call has handed out
TempName(n, suffix) == <<"/", "t", "/">> \o << ToString(n) >> \o suffix

\* os.path.exists(path)
Exists(files, path) == \E f \in files : f.path = path

\* os.remove(path), of a closed file this call created: taken to succeed
Remove(files, path) == {f \in files : f.path # path}

----------------------------------------------------------------------------
(* get_zip_members *)

\* zf.infolist() of an archive whose entries are named names[1], names[2], ...
InfoList(names) == [k \in 1..Len(names) |-> [pos |-> k, filename |-> names[k]]]

\* entries = [i for i in zf.infolist() if not i.is_dir()]
Entries(il) == SelectSeq(il, LAMBDA i : ~IsDir(i.filename))

\* a faulty Candidates: the extension filter is left out
CandidatesUnfiltered(entries) == entries

\* candidates = [i for i in entries if self._is_valid_member(i.filename)]
Candidates(entries) == SelectSeq(entries, LAMBDA i : IsValidMember(i.filename))

\* the classes named by `except (zipfile.BadZipFile, RuntimeError, OSError, ValueError)`
MemberErrors == {"BadZipFile", "RuntimeError", "OSError", "ValueError"}

\* What the archive library can do before the temp file exists (zf.open on an
\* encrypted entry), and while the copy loop runs: a CRC mismatch found by the
\* read, corrupt deflate data (zlib.error derives from Exception alone), and a
\* failed write.
OpenFaults == { [type |-> "RuntimeError", msg |-> MsgPwd] }
CopyFaults == { [type |-> "BadZipFile", msg |-> MsgCrc],
                [type |-> "zlib.error", msg |-> MsgZlib],
                [type |-> "OSError", msg |-> MsgDisk] }

\* The ways the body of the inner try can go for a member of `size` chunks
\* (a read that ends without an exception has yielded all of them):
\* exc is what it raised, tmp whether NamedTemporaryFile had returned by then,
\* written how many chunks tmp.write had stored.
MemberOutcomes(size) ==
    { [exc |-> None, tmp |-> TRUE, written |-> size] }
    \cup { [exc |-> Some(e), tmp |-> FALSE, written |-> 0] : e \in OpenFaults }
    \cup { [exc |-> Some(e), tmp |-> TRUE, written |-> k] : e \in CopyFaults, k \in 0..size }

\* member.crc_ok = True ... zd.ok_files.append(member.name)
MemberVerified(data, member, tmp_path) ==
    [data EXCEPT !.ok_members = Append(@, [member EXCEPT !.crc_ok = TRUE,
                                                         !.temp_path = tmp_path]),
                 !.ok_files = Append(@, member.name)]

\* a faulty MemberFailed: nothing is appended to zd.errors
MemberFailedQuietly(data, member, e) ==
    [data EXCEPT !.bad_members = Append(@, [member EXCEPT !.error = Some(e.msg)]),
                 !.bad_files = Append(@, member.name)]

\* member.error = str(e) ... zd.errors.append(...)
MemberFailed(data, member, e) ==
    [data EXCEPT !.bad_members = Append(@, [member EXCEPT !.error = Some(e.msg)]),
                 !.bad_files = Append(@, member.name),
                 !.errors = Append(@,
                     IF Contains(StrLower(e.msg), StrPassword) \/ Contains(StrLower(e.msg), StrDecrypt)
                     THEN member.name \o ColonSpace \o TxtEncrypted
                     ELSE member.name \o ColonSpace \o e.msg)]

\* if tmp_path and os.path.exists(tmp_path): os.remove(tmp_path)
RemovePartial(files, tmp_path) ==
    IF Truthy(tmp_path) /\ Exists(files, tmp_path[1]) THEN Remove(files, tmp_path[1]) ELSE files

\* the handlers of the outer try
OuterExcept(data, e) ==
    [data EXCEPT !.errors = Append(@,
        IF e.type = "BadZipFile" THEN TxtNotZip
        ELSE IF e.type = "LargeZipFile" THEN TxtTooLarge \o e.msg
        ELSE TxtUnexpected \o e.msg)]

\* zd.ok_files_count = len(zd.ok_files); zd.bad_files_count = len(zd.bad_files)
SetCounts(data) ==
    [data EXCEPT !.ok_files_count = Len(data.ok_files),
                 !.bad_files_count = Len(data.bad_files)]

----------------------------------------------------------------------------
(* cleanup_zip_members *)

\* a faulty cleanup_zip_members: only the bad members are visited
CleanupBadOnly(files, data) ==
    {f \in files : \A k \in 1..Len(data.bad_members) :
                       ~(Truthy(data.bad_members[k].temp_path)
                         /\ data.bad_members[k].temp_path[1] = f.path)}

\* for m in zip_data.ok_members + zip_data.bad_members: remove m.temp_path if it exists
CleanupZipMembers(files, data) ==
    LET members == data.ok_members \o data.bad_members
    IN  {f \in files : \A k \in 1..Len(members) :
                           ~(Truthy(members[k].temp_path) /\ members[k].temp_path[1] = f.path)}

----------------------------------------------------------------------------
(* Inputs: paths, archives and documents *)

SeqsUpTo(S, n) == UNION { [1..k -> S] : k \in 0..n }

PathZip == <<"i", "n", ".", "Z", "I", "P">>
PathPdf == <<"d", "o", "c", ".", "p", "d", "f">>
PathTxt == <<"d", "o", "c", ".", "t", "x", "t">>

\* extract's argument and whether a file is there
FilePaths ==
    { [name |-> PathZip, exists |-> TRUE], [name |-> PathZip, exists |-> FALSE],
      [name |-> PathPdf, exists |-> TRUE], [name |-> PathTxt, exists |-> TRUE] }

\* names of archive entries: two documents, a text file, a directory, a dot file
NameA == <<"a", ".", "p", "d", "f">>
NameB == <<"b", ".", "P", "D", "F">>
NameC == <<"c", ".", "t", "x", "t">>
NameD == <<"d", ".", "p", "d", "f", "/">>
NameH == <<".", "p", "d", "f">>
EntryNames == { NameA, NameB, NameC, NameD, NameH }

Archives == { InfoList(names) : names \in SeqsUpTo(EntryNames, MaxEntries) }

\* what zipfile.ZipFile(zip_path), setpassword and infolist can raise
ContainerFaults == { [type |-> "BadZipFile", msg |-> MsgCrc],
                     [type |-> "LargeZipFile", msg |-> MsgDisk],
                     [type |-> "OSError", msg |-> MsgNoFile] }

\* image and word boxes as pdfplumber's dicts
Box(x0, x1, y0, y1) == [x0 |-> x0, x1 |-> x1, y0 |-> y0, y1 |-> y1]
WBox(x0, x1, top, bottom) == [x0 |-> x0, x1 |-> x1, top |-> top, bottom |-> bottom]

ImageLists ==
    { << >>,
      << Box(0, 10, 0, 10) >>,                      \* the whole 10 x 10 page
      << Box(0, 15, 0, 5) >>,                       \* 75 of 100
      << Box(0, 2, 0, 37) >>,                       \* 74 of 100
      << Box(10, 0, 0, 10) >>,                      \* x1 < x0
      << Box(0, 20, 0, 20) >>,                      \* beyond the page
      << Box(0, 5, 0, 10), Box(0, 5, 0, 5) >>,      \* 50 + 25
      << [x1 |-> 10, y1 |-> 10] >> }                \* x0, y0 absent

WordLists ==
    { None,                                         \* extract_words() raises
      Some(<< >>),
      Some(<< WBox(0, 2, 0, 1) >>),                 \* 2 of 100
      Some(<< WBox(0, 1, 0, 1) >>),                 \* 1 of 100
      Some(<< WBox(0, 10, 0, 3) >>),                \* 30 of 100
      Some(<< [x0 |-> 0, x1 |-> 5, top |-> 2] >>) } \* bottom absent

GlyphCounts == { 0, CHAR_MIN_FOR_TEXT - 1, CHAR_MIN_FOR_TEXT }

Page(w, h, images, chars, words) ==
    [width |-> w, height |-> h, images |-> images, chars |-> chars, words |-> words,
     broken |-> FALSE]

RichPages ==
    { Page(w, 10, images, chars, words) :
        w \in {0, 10}, images \in ImageLists, chars \in GlyphCounts, words \in WordLists }

PgImage == Page(10, 10, << Box(0, 10, 0, 10) >>, 0, Some(<< >>))
PgText == Page(10, 10, << >>, 60, Some(<< WBox(0, 10, 0, 3) >>))
PgBlank == Page(10, 10, << >>, 0, Some(<< >>))
PgBoth == Page(10, 10, << Box(0, 10, 0, 10) >>, 60, Some(<< WBox(0, 10, 0, 3) >>))
PgBroken == [PgBlank EXCEPT !.broken = TRUE]
PageKinds == { PgImage, PgText, PgBlank, PgBoth, PgBroken }

\* i image pages, then t text pages, then m blank pages
BlockPages(i, t, m) ==
    [k \in 1..(i + t + m) |-> IF k <= i THEN PgImage ELSE IF k <= i + t THEN PgText ELSE PgBlank]

PageLists ==
    { << pg >> : pg \in RichPages }
    \cup SeqsUpTo(PageKinds, MaxPages)
    \cup { BlockPages(c[1], c[2], c[3]) :
             c \in { x \in (0..MaxRoutePages) \X (0..MaxRoutePages) \X (0..MaxRoutePages) :
                        x[1] + x[2] + x[3] <= MaxRoutePages } }

ProdScanner == <<"H", "P", " ", "S", "c", "a", "n", "n", "e", "r">>
ProdSCAN == <<"S", "C", "A", "N">>
ProdWord == <<"W", "o", "r", "d">>

\* metadata.get("Producer"): absent, "", a string, or an object that is no string
Producers ==
    { None, Some([is_str |-> TRUE, chars |-> << >>]),
      Some([is_str |-> TRUE, chars |-> ProdScanner]),
      Some([is_str |-> TRUE, chars |-> ProdSCAN]),
      Some([is_str |-> TRUE, chars |-> ProdWord]),
      Some([is_str |-> FALSE, chars |-> << >>]) }

Doc(opens, producer, pages) ==
    [opens |-> opens, metadata |-> [Producer |-> producer], pages |-> pages]

Docs ==
    { Doc(TRUE, producer, pages) : producer \in Producers, pages \in PageLists }
    \cup { Doc(FALSE, None, << >>) }

\* the documents found in archive members
MemberDocs ==
    { Doc(FALSE, None, << >>),
      Doc(TRUE, Some([is_str |-> TRUE, chars |-> ProdScanner]), << PgText >>) }

ProfileCalls ==
    { [path |-> Some(TempName(1, ExtPdf)), original_name |-> Some(NameA),
       exists |-> TRUE, doc |-> d] : d \in Docs }
    \cup { [path |-> path, original_name |-> name, exists |-> FALSE,
            doc |-> Doc(TRUE, None, << PgText >>)] :
              path \in { None, Some(<< >>), Some(TempName(1, ExtPdf)) },
              name \in { None, Some(NameA) } }

----------------------------------------------------------------------------
(* extract *)

Init ==
    /\ file_path \in FilePaths
    /\ infolist \in IF file_path.exists /\ GetExtension(file_path.name) = ExtZip
                    THEN Archives ELSE { << >> }
    /\ pc = "extract"
    /\ zf = "unopened"
    /\ zd = NewZipData
    /\ zip_data = NewZipData
    /\ extract_data = NewExtractData
    /\ cand_i = 1
    /\ ok_j = 1
    /\ fs = {}
    /\ next_tmp = 1
    /\ raised = << >>
    /\ outcome = None
    /\ p_in = None
    /\ p_out = None

\* extract leaves through its finally block: cleanup_zip_members(zip_data)
Leave(how) ==
    /\ fs' = CleanupZipMembers(fs, zip_data)
    /\ outcome' = Some(how)
    /\ pc' = "done"

\* extract up to the dispatch on the extension
Extract ==
    /\ pc = "extract"
    /\ LET extension == GetExtension(file_path.name)
       IN  IF ~file_path.exists
           THEN /\ extract_data' = [extract_data EXCEPT
                                      !.error = Append(@, TxtNotFound \o file_path.name)]
                /\ Leave("returned")
           ELSE IF extension = ExtZip
           THEN /\ pc' = "get_zip_members"
                /\ UNCHANGED << extract_data, fs, outcome >>
           ELSE IF ~IsValidMember(file_path.name)
           THEN /\ extract_data' = [extract_data EXCEPT
                                      !.error = Append(@, TxtBadExt \o extension
                                                          \o TxtExpected \o << "{'.pdf'}" >>)]
                /\ Leave("returned")
           ELSE /\ UNCHANGED extract_data
                /\ Leave("returned")
    /\ UNCHANGED << file_path, infolist, zf, zd, zip_data, cand_i, ok_j, next_tmp, raised, p_in, p_out >>

\* get_zip_members returns data to extract, which assigns it to zip_data;
\* leaving the `with` block has closed the ZipFile, if it had opened
ReturnZipData(data) ==
    /\ zf' = IF zf = "open" THEN "closed" ELSE zf
    /\ zd' = data
    /\ zip_data' = data
    /\ ok_j' = 1
    /\ pc' = "profile"

\* get_zip_members from its start to the first candidate: the container opens
\* or raises, the listing is filtered, and an empty listing returns at once
OpenZip ==
    /\ pc = "get_zip_members"
    /\ \/ \E e \in ContainerFaults :
            /\ zf' = "failed"
            /\ zd' = SetCounts(OuterExcept(zd, e))
            /\ zip_data' = zd'
            /\ ok_j' = 1
            /\ pc' = "profile"
       \/ LET entries == Entries(infolist)
              candidates == Candidates(entries)
          IN  IF entries = << >> \/ candidates = << >>
              THEN /\ zf' = "closed"
                   /\ zd' = zd
                   /\ zip_data' = zd
                   /\ ok_j' = 1
                   /\ pc' = "profile"
              ELSE /\ zf' = "open"
                   /\ pc' = "scan"
                   /\ UNCHANGED << zd, zip_data, ok_j >>
    /\ cand_i' = 1
    /\ UNCHANGED << file_path, infolist, extract_data, fs, next_tmp, raised, outcome, p_in, p_out >>

\* One pass of `for info in candidates`. date_ok: whether info.date_time is a
\* date datetime() accepts; size: info.file_size in chunks; out: what the open
\* and the copy do. An exception the inner handler does not name reaches the
\* outer one, which ends the scan.
ScanMember ==
    /\ pc = "scan"
    /\ cand_i <= Len(Candidates(Entries(infolist)))
    /\ LET info == Candidates(Entries(infolist))[cand_i]
       IN  \E date_ok \in BOOLEAN, size \in 0..MaxChunks :
             IF ~date_ok
             THEN /\ ReturnZipData(SetCounts(OuterExcept(zd, [type |-> "ValueError", msg |-> MsgMonth])))
                  /\ raised' = Append(raised, [info |-> info.pos, built |-> FALSE,
                                               exc |-> None, tmp_path |-> None])
                  /\ UNCHANGED << fs, next_tmp, cand_i >>
             ELSE \E out \in MemberOutcomes(size) :
                  LET member == NewZipMember(info.pos, info.filename, size)
                      ext == GetExtension(info.filename)
                      suffix == IF ext # << >> THEN ext ELSE ExtBin
                      tmp_path == IF out.tmp THEN Some(TempName(next_tmp, suffix)) ELSE None
                      written == IF out.tmp
                                 THEN fs \cup { [path |-> tmp_path[1], chunks |-> out.written] }
                                 ELSE fs
                  IN  /\ next_tmp' = IF out.tmp THEN next_tmp + 1 ELSE next_tmp
                      /\ raised' = Append(raised, [info |-> info.pos, built |-> TRUE,
                                                   exc |-> out.exc, tmp_path |-> tmp_path])
                      /\ IF out.exc = None
                         THEN /\ zd' = MemberVerified(zd, member, tmp_path)
                              /\ fs' = written
                              /\ cand_i' = cand_i + 1
                              /\ UNCHANGED << zip_data, ok_j, pc, zf >>
                         ELSE IF out.exc[1].type \in MemberErrors
                         THEN /\ zd' = MemberFailed(zd, member, out.exc[1])
                              /\ fs' = RemovePartial(written, tmp_path)
                              /\ cand_i' = cand_i + 1
                              /\ UNCHANGED << zip_data, ok_j, pc, zf >>
                         ELSE /\ ReturnZipData(SetCounts(OuterExcept(zd, out.exc[1])))
                              /\ fs' = written
                              /\ UNCHANGED cand_i
    /\ UNCHANGED << file_path, infolist, extract_data, outcome, p_in, p_out >>

\* the candidates are exhausted: the counts are set and zd is returned
ScanReturn ==
    /\ pc = "scan"
    /\ cand_i > Len(Candidates(Entries(infolist)))
    /\ ReturnZipData(SetCounts(zd))
    /\ UNCHANGED << file_path, infolist, extract_data, cand_i, fs, next_tmp, raised, outcome,
                    p_in, p_out >>

\* One pass of `for zip_member in zip_data.ok_members`: the member's temp file
\* is profiled and the profile printed; print may raise, and then extract
\* leaves through finally with the exception.
ProfileMember ==
    /\ pc = "profile"
    /\ ok_j <= Len(zip_data.ok_members)
    /\ LET zip_member == zip_data.ok_members[ok_j]
       IN  \E doc \in MemberDocs, print_raises \in BOOLEAN :
             LET call == [path |-> zip_member.temp_path,
                          original_name |-> Some(zip_member.name),
                          exists |-> Truthy(zip_member.temp_path)
                                     /\ Exists(fs, zip_member.temp_path[1]),
                          doc |-> doc]
             IN  /\ p_in' = Some(call)
                 /\ p_out' = Some(ProfilePdfLayout(call.path, call.original_name,
                                                   call.exists, call.doc))
                 /\ IF print_raises
                    THEN Leave("raised") /\ UNCHANGED ok_j
                    ELSE ok_j' = ok_j + 1 /\ UNCHANGED << fs, outcome, pc >>
    /\ UNCHANGED << file_path, infolist, zf, zd, zip_data, extract_data, cand_i, next_tmp, raised >>

\* `return extract_data` after the loop, through finally
ExtractReturn ==
    /\ pc = "profile"
    /\ ok_j > Len(zip_data.ok_members)
    /\ Leave("returned")
    /\ UNCHANGED << file_path, infolist, zf, zd, zip_data, extract_data, cand_i, ok_j, next_tmp,
                    raised, p_in, p_out >>

Next == Extract \/ OpenZip \/ ScanMember \/ ScanReturn \/ ProfileMember \/ ExtractReturn

Spec == Init /\ [][Next]_vars

----------------------------------------------------------------------------
(* _profile_pdf_layout on its own *)

InitProfile ==
    /\ file_path = [name |-> PathPdf, exists |-> TRUE]
    /\ infolist = << >>
    /\ pc = "call"
    /\ zf = "unopened"
    /\ zd = NewZipData
    /\ zip_data = NewZipData
    /\ extract_data = NewExtractData
    /\ cand_i = 1
    /\ ok_j = 1
    /\ fs = {}
    /\ next_tmp = 1
    /\ raised = << >>
    /\ outcome = None
    /\ p_in \in { Some(c) : c \in ProfileCalls }
    /\ p_out = None

ProfileCall ==
    /\ pc = "call"
    /\ p_out' = Some(ProfilePdfLayout(p_in[1].path, p_in[1].original_name,
                                      p_in[1].exists, p_in[1].doc))
    /\ pc' = "returned"
    /\ UNCHANGED << file_path, infolist, zf, zd, zip_data, extract_data, cand_i, ok_j, fs,
                    next_tmp, raised, outcome, p_in >>

NextProfile == ProfileCall

SpecProfile == InitProfile /\ [][NextProfile]_vars

----------------------------------------------------------------------------
(* Vocabulary of the properties *)

\* the temp files NamedTemporaryFile created during this call of extract
CreatedDuringCall ==
    { raised[k].tmp_path[1] : k \in { n \in 1..Len(raised) : raised[n].tmp_path # None } }

\* the listing positions of the archive's candidate entries, by the listing alone
CandidatePositions ==
    { k \in 1..Len(infolist) :
        ~IsDir(infolist[k].filename) /\ IsValidMember(infolist[k].filename) }

\* how often the entry at listing position pos occurs in a member sequence
Occurrences(members, pos) == Cardinality({ k \in 1..Len(members) : members[k].info = pos })

\* a member sequence follows the listing order, without repeats
InListingOrder(members) ==
    \A k \in 1..(Len(members) - 1) : members[k].info < members[k+1].info

ScanHasReturned == pc \in {"profile", "done"}

\* the archive's only entry is an accepted member whose full read fails the CRC check
OnlyEntryHasBadCrc ==
    /\ Len(infolist) = 1
    /\ CandidatePositions = {1}
    /\ Len(raised) = 1
    /\ raised[1].exc = Some([type |-> "BadZipFile", msg |-> MsgCrc])

\* page k of the profiled document has no image and no word (or no word list at all)
ZeroImagesZeroWords(k) ==
    /\ p_in[1].doc.pages[k].images = << >>
    /\ p_in[1].doc.pages[k].words \in { None, Some(<< >>) }

\* chars contains "scan" in any mix of cases
MentionsScan(chars) ==
    \E k \in 1..(Len(chars) - 3) :
        /\ chars[k] \in {"s", "S"}
        /\ chars[k+1] \in {"c", "C"}
        /\ chars[k+2] \in {"a", "A"}
        /\ chars[k+3] \in {"n", "N"}

\* the recommendation as the routing rule states it
Routing(n, i, t, scanner) ==
    IF n = 0 THEN "hybrid"
    ELSE IF 10 * i >= 6 * n THEN "ocr"
    ELSE IF 10 * t >= 9 * n THEN (IF scanner THEN "hybrid" ELSE "pdfplumber")
    ELSE "hybrid"

ProducerOf(doc) ==
    IF doc.metadata.Producer = None THEN << >> ELSE doc.metadata.Producer[1].chars

----------------------------------------------------------------------------
(* Properties of extract and get_zip_members, under Spec *)

\* C1: once extract has ended (by return or by exception), no temp file that
\* was created during the call exists, whatever each member's open/copy raised.
C1_NoTempFileAfterExtract ==
    pc = "done" => \A path \in CreatedDuringCall : ~Exists(fs, path)

\* C2: when get_zip_members has returned, every candidate whose open or copy
\* raised is in bad_members with crc_ok false, no temp_path and a non-empty
\* error, its partial temp file is gone, and every returned member has a
\* temp_path exactly when crc_ok.
C2_AnyErrorMarksMemberFailed ==
    ScanHasReturned =>
        /\ \A k \in 1..Len(raised) :
             raised[k].exc # None =>
                /\ \E j \in 1..Len(zd.bad_members) :
                      /\ zd.bad_members[j].info = raised[k].info
                      /\ ~zd.bad_members[j].crc_ok
                      /\ zd.bad_members[j].temp_path = None
                      /\ Truthy(zd.bad_members[j].error)
                /\ raised[k].tmp_path # None => ~Exists(fs, raised[k].tmp_path[1])
        /\ \A j \in 1..Len(zd.ok_members \o zd.bad_members) :
             LET m == (zd.ok_members \o zd.bad_members)[j]
             IN  (m.temp_path # None) <=> m.crc_ok

\* C3: when an archive that opened and listed has been scanned, every candidate
\* entry is in exactly one of ok_members and bad_members, whatever failed.
C3_EveryCandidateClassified ==
    (ScanHasReturned /\ zf = "closed") =>
        \A pos \in CandidatePositions :
            Occurrences(zd.ok_members, pos) + Occurrences(zd.bad_members, pos) = 1

\* C4: the ExtractData that extract returns has an error entry when the
\* container could not be opened, and a warning or error entry naming each
\* member that failed its integrity check.
C4_FailuresSurfacedInExtractData ==
    (pc = "done" /\ outcome = Some("returned")) =>
        /\ zf = "failed" => extract_data.error # << >>
        /\ \A j \in 1..Len(zip_data.bad_members) :
             \E k \in 1..Len(extract_data.warning \o extract_data.error) :
                Contains((extract_data.warning \o extract_data.error)[k],
                         zip_data.bad_members[j].name)

C7_MembersAreCandidatesInOrder ==
    /\ \A j \in 1..Len(zd.ok_members \o zd.bad_members) :
         LET m == (zd.ok_members \o zd.bad_members)[j]
         IN  /\ m.info \in 1..Len(infolist)
             /\ m.name = infolist[m.info].filename
             /\ ~IsDir(m.name)
             /\ StrLower(SplitextExt(m.name)) \in valid_extensions
    /\ \A pos \in 1..Len(infolist) :
         Occurrences(zd.ok_members, pos) + Occurrences(zd.bad_members, pos) <= 1
    /\ InListingOrder(zd.ok_members)
    /\ InListingOrder(zd.bad_members)
    /\ Len(zd.ok_members) + Len(zd.bad_members) <= Cardinality(CandidatePositions)
    /\ zip_data \in { NewZipData, zd }

C7_Witness ==
    /\ pc = "profile"
    /\ Len(zd.ok_members) = 1
    /\ Len(zd.bad_members) = 1
    /\ zd.bad_members[1].info < zd.ok_members[1].info
    /\ zd.ok_members[1].name = NameB

----------------------------------------------------------------------------
(* Properties of _profile_pdf_layout, under SpecProfile *)

\* C8 as stated: a profiled page with zero images and zero words (word
\* extraction may have failed) is not image_dominant, not text_dominant and
\* has has_text false, for every glyph count.
C8_EmptyPageHasNoText ==
    (p_out # None /\ p_out[1].readable) =>
        \A k \in 1..Len(p_out[1].page_stats) :
            ZeroImagesZeroWords(k) =>
                /\ ~p_out[1].page_stats[k].image_dominant
                /\ ~p_out[1].page_stats[k].text_dominant
                /\ ~p_out[1].page_stats[k].has_text

\* C8 amended: such a page is not image_dominant and not text_dominant, and
\* has has_text true exactly when its glyph count is at least CHAR_MIN_FOR_TEXT.
C8_EmptyPageTextByGlyphsOnly ==
    (p_out # None /\ p_out[1].readable) =>
        \A k \in 1..Len(p_out[1].page_stats) :
            ZeroImagesZeroWords(k) =>
                /\ ~p_out[1].page_stats[k].image_dominant
                /\ ~p_out[1].page_stats[k].text_dominant
                /\ p_out[1].page_stats[k].has_text
                      <=> (p_in[1].doc.pages[k].chars >= CHAR_MIN_FOR_TEXT)

C8_Witness ==
    /\ p_out # None /\ p_out[1].readable
    /\ Len(p_out[1].page_stats) = 1
    /\ ZeroImagesZeroWords(1)
    /\ p_in[1].doc.pages[1].words = None
    /\ p_in[1].doc.pages[1].chars = CHAR_MIN_FOR_TEXT
    /\ p_out[1].page_stats[1].has_text

\* C9: for a readable document the recommendation is the routing rule's
\* function of the page count, the image-dominant and text-dominant counts
\* and whether Producer contains "scan" in any case, with an empty rationale
\* when there are no pages.
C9_RecommendationIsRoutingRule ==
    (p_out # None /\ p_out[1].readable) =>
        LET r == p_out[1]
            n == Len(p_in[1].doc.pages)
            i == Cardinality({ k \in 1..Len(r.page_stats) : r.page_stats[k].image_dominant })
            t == Cardinality({ k \in 1..Len(r.page_stats) : r.page_stats[k].text_dominant })
        IN  /\ r.recommended = Routing(n, i, t, MentionsScan(ProducerOf(p_in[1].doc)))
            /\ r.recommended \in {"ocr", "pdfplumber", "hybrid"}
            /\ n = 0 => r.rationale = << >>

C9_Witness ==
    /\ p_out # None /\ p_out[1].readable
    /\ p_out[1].pages = 10
    /\ p_out[1].pages_text_dominant = 9
    /\ p_out[1].pages_image_dominant = 1
    /\ ProducerOf(p_in[1].doc) = ProdSCAN
    /\ p_out[1].recommended = "hybrid"

\* C10: no page of a returned profile is both image_dominant and
\* text_dominant; a readable profile has one page_stats entry per page and
\* three counts >= 0 that sum to pages; an unreadable one (no path, open
\* failure, failure part-way through the pages) has pages = 0, no page_stats,
\* zero counts and an error.
C10_ProfileShape ==
    p_out # None =>
        LET r == p_out[1]
            call == p_in[1]
        IN  /\ \A k \in 1..Len(r.page_stats) :
                 ~(r.page_stats[k].image_dominant /\ r.page_stats[k].text_dominant)
            /\ r.readable =>
                 /\ Len(r.page_stats) = r.pages
                 /\ r.pages = Len(call.doc.pages)
                 /\ r.pages_image_dominant + r.pages_text_dominant + r.pages_mixed = r.pages
                 /\ r.pages_image_dominant >= 0
                 /\ r.pages_text_dominant >= 0
                 /\ r.pages_mixed >= 0
            /\ ~r.readable =>
                 /\ r.pages = 0
                 /\ r.page_stats = << >>
                 /\ r.pages_image_dominant = 0
                 /\ r.pages_text_dominant = 0
                 /\ r.pages_mixed = 0
                 /\ r.error # None
            /\ ( \/ ~Truthy(call.path)
                 \/ ~call.exists
                 \/ ~call.doc.opens
                 \/ \E k \in 1..Len(call.doc.pages) : call.doc.pages[k].broken )
               => ~r.readable

C10_Witness ==
    /\ p_out # None /\ p_out[1].readable
    /\ p_out[1].pages = 3
    /\ p_in[1].doc.pages[1] = PgBoth
    /\ p_out[1].page_stats[1].image_dominant
    /\ p_out[1].pages_text_dominant = 1
    /\ p_out[1].pages_mixed = 1

====
